---- MODULE Spec2Model ----
(***************************************************************************)
(* SkyTracker frontend: the reactive map store (store/mapStore.ts), the    *)
(* area worker (workers/AircraftMapWorker.js), the fetcher component      *)
(* (components/visuals/aircraftMap/AircraftMapFetcher.tsx), the marker     *)
(* layer (AircraftMarkerLayer.tsx) and the track layer                     *)
(* (AircraftTrackLayer.tsx) of the same directory.                         *)
(*                                                                         *)
(* The browser is one event loop: every action below is one task (a timer  *)
(* callback, a message event, the continuation of an awaited request, a    *)
(* user event).  A store mutation made by a user event is followed by the  *)
(* React render and then by the effects that depend on the changed value;  *)
(* the render observes the store between the two, so the mutation and the  *)
(* effect are two steps with nothing else in between (effectPending).      *)
(***************************************************************************)
EXTENDS Integers, Sequences, FiniteSets, Bags, TLC

\* ---------------------------------------------------------------- bounds
MaxTime == 1          \* the clock runs over 0..MaxTime
MaxInflight == 2      \* requests in flight when a click or a refresh tick adds one
MaxAreaReqs == 2      \* area requests and replies under way when a trigger adds one
MaxHistLen == 3       \* longest history the store mutators are applied to in StoreSpec

\* ------------------------------------------------------ program constants
defaultZoom == 6          \* zoom of the map when no view was saved
animationZoomLimit == 9   \* markers are animated from this zoom on
GAP_THRESHOLD == 200      \* seconds between two history points from which on there is a gap

\* ------------------------------------------------------------ value sets
NULL == "null"
Callsigns == {"A", "B"}
Times == 0..MaxTime

\* A timestamp as the backend serialises it: the instant and the textual
\* format of the endpoint that produced it.  Two strings of different
\* format can denote the same instant.
TimeString(t, fmt) == <<t, fmt>>

\* new Date(s).valueOf(): the instant a timestamp string denotes.
DateValue(s) == s[1]

\* (a - b) / 1000 for two Date values: the clock ticks every 10 seconds.
ElapsedSeconds(a, b) == 10 * (a - b)

\* An optional value: absent, or present with its content.
None == << >>
Some(x) == <<x>>

\* Where the backend reports an aircraft (grid units) at instant 0 and at
\* instant t, and at which altitude (a number or null).
Position(c) ==
    CASE c = "A" -> <<100, 200>> [] c = "B" -> <<300, 400>>
      [] c = "C" -> <<500, 600>> [] c = "D" -> <<700, 800>>
PositionAt(c, t) == <<Position(c)[1] + t, Position(c)[2]>>
Altitude(c) == IF c \in {"A", "C"} THEN None ELSE Some(18000)

\* A MapState row (history point / area snapshot).
MapState(c, t, fmt) ==
    [callsign |-> c, time |-> TimeString(t, fmt), position |-> PositionAt(c, t),
     altitude |-> Altitude(c)]

\* The identifiers the backend knows for a flight; each is a code or null.
\* Flight A has an airline and an arrival airport on record, flight B only a
\* registration, flights C and D no identifier at all.
Identifiers(c) ==
    CASE c = "A" -> [registration |-> NULL, airline_icao |-> "icao", arrival_iata |-> "arr",
                     departure_iata |-> NULL]
      [] c = "B" -> [registration |-> "reg", airline_icao |-> NULL, arrival_iata |-> NULL,
                     departure_iata |-> NULL]
      [] OTHER -> [registration |-> NULL, airline_icao |-> NULL, arrival_iata |-> NULL,
                   departure_iata |-> NULL]

\* A State record as returned by the latest-state endpoint.
State(c, t) ==
    [callsign |-> c, time |-> TimeString(t, "state"), position |-> PositionAt(c, t),
     altitude |-> Altitude(c), ids |-> Identifiers(c)]

\* stateToMapState: the history point made from a State record.
stateToMapState(state) ==
    [callsign |-> state.callsign, time |-> state.time, position |-> state.position,
     altitude |-> state.altitude]

\* What the backend recorded of a flight before instant 0, newest first:
\* nothing of A and B; of C observations 330, 340 and 400 seconds old; of D
\* one observation 200 seconds old.
PastRows(c) ==
    CASE c = "C" -> <<MapState(c, -33, "map"), MapState(c, -34, "map"), MapState(c, -40, "map")>>
      [] c = "D" -> <<MapState(c, -20, "map")>>
      [] OTHER -> << >>

\* The backend's history of callsign c as answered at instant t: one point
\* per instant since 0 and the older observations, newest first.
RECURSIVE HistoryRows(_, _)
HistoryRows(c, t) ==
    IF t < 0 THEN PastRows(c) ELSE <<MapState(c, t, "map")>> \o HistoryRows(c, t - 1)

\* The lists an area query can return at instant t.
AreaLists(t) ==
    { << >>,
      <<MapState("B", t, "map")>>,
      <<MapState("A", t, "map"), MapState("B", t, "map")>> }

\* ----------------------------------------------------------------- store
Loadable(status, data, error) == [status |-> status, data |-> data, error |-> error]
Idle == Loadable("idle", None, NULL)
Loading == Loadable("loading", None, NULL)
Success(data) == Loadable("success", Some(data), NULL)
Failure(error) == Loadable("error", None, error)

Slots == {"state", "aircraft", "airline", "departure", "arrival", "photos"}
Lookups == <<"aircraft", "airline", "arrival", "departure", "photos">>

emptySidebarDetails == [s \in Slots |-> Idle]

setDetailLoading == [s \in Slots |-> Loading]

setDetailError(error) == [s \in Slots |-> Failure(error)]

\* setDetailState, setDetailAircraft, setDetailAirline, setDetailDeparture,
\* setDetailArrival, setDetailPhotos: replace one slot, keep the others.
setDetail(d, slot, loadable) == [d EXCEPT ![slot] = loadable]

\* The test of appendHistory / prependHistory: some stored point denotes
\* the instant of the new point.
HasTimeRaw(h, point) == \E i \in 1..Len(h) : h[i].time = point.time
HasTime(h, point) == \E i \in 1..Len(h) : DateValue(h[i].time) = DateValue(point.time)

prependHistoryNoDedup(h, point) == <<point>> \o h
prependHistoryRaw(h, point) == IF HasTimeRaw(h, point) THEN h ELSE <<point>> \o h
prependHistory(h, point) == IF HasTime(h, point) THEN h ELSE <<point>> \o h

appendHistory(h, point) == IF HasTime(h, point) THEN h ELSE h \o <<point>>

VARIABLES
    now,                \* the clock (client and backend)
    mounted,            \* the fetcher component is mounted
    selected,           \* store.selected
    lastHistoryUpdate,  \* store.lastHistoryUpdate
    history,            \* store.history
    details,            \* store.details
    animatedPosition,   \* store.animatedPosition
    mapStates,          \* store.mapStates (the batch)
    lastMapUpdate,      \* store.lastMapUpdate
    effectPending,      \* selected changed, the selection effect has not run yet
    refreshTimer,       \* callsign whose latest-state interval is active, or NULL
    inflight,           \* requests of the selection effects awaiting their response
    areaTimer,          \* the area interval is active
    workerReqs,         \* area requests awaiting the backend inside the worker
    workerMsgs,         \* worker replies posted and not yet handled
    lastEvent,          \* the task that ran last (log)
    zoom,               \* map.getZoom()
    layerMounted,       \* the marker layer component is mounted (layerRef is set)
    altitudeOffset,     \* prop altitudeOffset of the marker layer
    aircraftRef,        \* aircraftRef.current
    markersRef,         \* markersRef.current: callsign -> marker
    offsetRef,          \* offsetRef.current: callsign -> offset
    layer,              \* the markers drawn on the canvas layer (by callsign)
    frame,              \* variable frame of the current animation effect run
    rafQueue,           \* frame callbacks of the layer scheduled in the browser
    trackMounted,       \* the track layer component is mounted
    segments,           \* state segments of the track layer
    visibleSegments,    \* state visibleSegments of the track layer
    prevTrackLength,    \* prevTrackLength.current
    prevSelected,       \* prevSelected.current
    revealTimer,        \* the interval of the current reveal effect run: counter i and count
    cancelledTimers,    \* intervals of earlier runs (isCancelled set) are still to clear
    currentSegment      \* state currentSegment of the track layer: null or the live segment

selVars == <<selected, lastHistoryUpdate, history, details, animatedPosition,
             effectPending, refreshTimer, inflight>>
areaVars == <<mapStates, lastMapUpdate, areaTimer, workerReqs, workerMsgs>>
markerVars == <<zoom, layerMounted, altitudeOffset, aircraftRef, markersRef, offsetRef,
                layer, frame, rafQueue>>
trackVars == <<trackMounted, segments, visibleSegments, prevTrackLength, prevSelected,
               revealTimer, cancelledTimers, currentSegment>>
viewVars == <<markerVars, trackVars>>
vars == <<now, mounted, selected, lastHistoryUpdate, history, details, animatedPosition,
          mapStates, lastMapUpdate, effectPending, refreshTimer, inflight,
          areaTimer, workerReqs, workerMsgs, lastEvent, viewVars>>

Event(op, kind, info) == [op |-> op, kind |-> kind, info |-> info]
NoInfo == << >>

RemoveAt(s, i) == SubSeq(s, 1, i - 1) \o SubSeq(s, i + 1, Len(s))

\* The map view before the marker layer is mounted.
MarkerLayerInit ==
    /\ zoom = defaultZoom
    /\ layerMounted = FALSE
    /\ altitudeOffset = FALSE
    /\ aircraftRef = << >>
    /\ markersRef = << >>
    /\ offsetRef = << >>
    /\ layer = {}
    /\ frame = NULL
    /\ rafQueue = 0

\* The state and the refs of the track layer as created.
TrackLayerInit ==
    /\ segments = << >>
    /\ visibleSegments = << >>
    /\ prevTrackLength = 0
    /\ prevSelected = NULL
    /\ revealTimer = None
    /\ cancelledTimers = FALSE
    /\ currentSegment = None

\* The map view before any layer component is mounted.
ViewInit == MarkerLayerInit /\ TrackLayerInit /\ trackMounted = FALSE

\* The store as created, before the component mounts.
Init ==
    /\ now = 0
    /\ mounted = FALSE
    /\ selected = NULL
    /\ lastHistoryUpdate = 0
    /\ history = << >>
    /\ details = emptySidebarDetails
    /\ animatedPosition = <<0, 0>>
    /\ mapStates = << >>
    /\ lastMapUpdate = 0
    /\ effectPending = FALSE
    /\ refreshTimer = NULL
    /\ inflight = EmptyBag
    /\ areaTimer = FALSE
    /\ workerReqs = << >>
    /\ workerMsgs = << >>
    /\ lastEvent = Event("init", NULL, NoInfo)
    /\ ViewInit

\* Time passes; the backend records a new observation of every aircraft.
AdvanceTime ==
    /\ now < MaxTime
    /\ ~effectPending
    /\ now' = now + 1
    /\ lastEvent' = Event("time", NULL, NoInfo)
    /\ UNCHANGED <<viewVars, mounted, selVars, areaVars>>

\* ------------------------------------------------------- area pipeline
\* startFetch: post the padded bounds to the worker.
startFetch(reqs) == Append(reqs, [issued |-> now])

\* Mount with nothing selected: both effects of the component run.  The area
\* effect creates the worker, attaches the handlers, starts the interval and
\* fetches once; the selection effect resets the selection data and returns.
Mount ==
    /\ ~mounted
    /\ selected = NULL
    /\ mounted' = TRUE
    /\ areaTimer' = TRUE
    /\ workerReqs' = startFetch(workerReqs)
    /\ history' = << >>
    /\ details' = emptySidebarDetails
    /\ animatedPosition' = <<0, 0>>
    /\ lastEvent' = Event("mount", NULL, NoInfo)
    /\ UNCHANGED <<viewVars, now, selected, lastHistoryUpdate, mapStates, lastMapUpdate,
                   effectPending, refreshTimer, inflight, workerMsgs>>

\* The area interval fires, or the map reports moveend.
StartFetch(trigger) ==
    /\ mounted
    /\ ~effectPending
    /\ trigger = "interval" => areaTimer
    /\ Len(workerReqs) + Len(workerMsgs) < MaxAreaReqs
    /\ workerReqs' = startFetch(workerReqs)
    /\ lastEvent' = Event("startFetch", trigger, NoInfo)
    /\ UNCHANGED <<viewVars, now, mounted, selVars, mapStates, lastMapUpdate, areaTimer, workerMsgs>>

\* self.onmessage of the worker, after its await: the request i is answered
\* (or rejected) and the reply is posted to the main thread.
WorkerReply(i, msg) ==
    /\ i \in 1..Len(workerReqs)
    /\ workerReqs' = RemoveAt(workerReqs, i)
    /\ workerMsgs' = Append(workerMsgs, msg)
    /\ lastEvent' = Event("workerReply", NULL, NoInfo)
    /\ UNCHANGED <<viewVars, now, mounted, selVars, mapStates, lastMapUpdate, areaTimer>>

\* The replies the worker can post for a request issued at instant t0: an
\* error, a reply without data, or a list answered at some instant since.
WorkerMessages(t0) ==
    { [error |-> TRUE, data |-> None], [error |-> FALSE, data |-> None] }
    \cup { [error |-> FALSE, data |-> Some(l)] : l \in UNION { AreaLists(t) : t \in t0..now } }

MessageKind(msg) ==
    IF msg.error THEN "error"
    ELSE IF msg.data = None THEN "nodata"
    ELSE IF msg.data[1] = << >> THEN "empty" ELSE "list"

\* What handleFetch does to <<mapStates, lastMapUpdate>> for one message.
\* An empty list is truthy: reading aircraftStates[0].time throws and the
\* handler ends before any store call.
handleFetchClearsOnError(msg, batch, stamp) ==
    IF msg.error THEN << << >>, stamp >>
    ELSE IF msg.data = None THEN << << >>, stamp >>
    ELSE IF msg.data[1] = << >> THEN << batch, stamp >>
    ELSE << msg.data[1], DateValue(msg.data[1][1].time) >>
handleFetch(msg, batch, stamp) ==
    IF msg.error THEN << batch, stamp >>
    ELSE IF msg.data = None THEN << << >>, stamp >>
    ELSE IF msg.data[1] = << >> THEN << batch, stamp >>
    ELSE << msg.data[1], DateValue(msg.data[1][1].time) >>

\* The store states <<mapStates, lastMapUpdate>> that the set calls of
\* handleFetch leave one after the other (the store notifies its subscribers
\* in each set): setLastMapUpdateString then setMapStates for a list,
\* setMapStates([]) for a reply without data, no call otherwise.
handleFetchSets(msg, batch, stamp) ==
    IF MessageKind(msg) = "list"
    THEN << << batch, DateValue(msg.data[1][1].time) >>,
            << msg.data[1], DateValue(msg.data[1][1].time) >> >>
    ELSE IF MessageKind(msg) = "nodata" THEN << << << >>, stamp >> >>
    ELSE << >>

\* The message listener of the main thread handles the oldest reply.
HandleFetch ==
    /\ mounted
    /\ ~effectPending
    /\ workerMsgs # << >>
    /\ LET msg == Head(workerMsgs)
           res == handleFetch(msg, mapStates, lastMapUpdate)
       IN /\ mapStates' = res[1]
          /\ lastMapUpdate' = res[2]
          /\ lastEvent' = Event("handleFetch", MessageKind(msg),
                                handleFetchSets(msg, mapStates, lastMapUpdate))
    /\ workerMsgs' = Tail(workerMsgs)
    /\ UNCHANGED <<viewVars, now, mounted, selVars, areaTimer, workerReqs>>

NextArea ==
    \/ AdvanceTime
    \/ Mount
    \/ \E trigger \in {"interval", "moveend"} : StartFetch(trigger)
    \/ \E i \in 1..Len(workerReqs) : \E msg \in WorkerMessages(workerReqs[i].issued) :
          WorkerReply(i, msg)
    \/ HandleFetch

AreaSpec == Init /\ [][NextArea]_vars

\* ----------------------------------------------------------- track layer
\* components/visuals/aircraftMap/AircraftTrackLayer.tsx.  The effects of the
\* layer run in the task that changed store.history or store.selected, after
\* the render; the ticks of the reveal intervals are tasks of their own.

\* The type of the segment between two points dt seconds apart.
segmentType(dt) == IF dt < GAP_THRESHOLD THEN "normal" ELSE "gap"

\* The segment pushed for history[i] (state1) and history[i + 1] (state2).
Segment(state1, state2) ==
    [startPos |-> state2.position, endPos |-> state1.position,
     startAlt |-> state2.altitude, endAlt |-> state1.altitude,
     startTime |-> state2.time, endTime |-> state1.time,
     type |-> segmentType(ElapsedSeconds(DateValue(state1.time), DateValue(state2.time)))]

\* The effect on [history]: one segment per pair of adjacent points.
updateSegmentsSkipsLast(h) == [i \in 1..(Len(h) - 2) |-> Segment(h[i], h[i + 1])]
updateSegments(h) == [i \in 1..(Len(h) - 1) |-> Segment(h[i], h[i + 1])]

\* What the reveal effect reads and writes besides segments and selected.
TrackView ==
    [visibleSegments |-> visibleSegments, prevSelected |-> prevSelected,
     prevTrackLength |-> prevTrackLength, revealTimer |-> revealTimer,
     cancelledTimers |-> cancelledTimers]

\* The cleanup of a reveal effect run: isCancelled = true; the interval of
\* the run, if it is still active, is cleared at its next tick.
revealCleanup(v) ==
    IF v.revealTimer # None
    THEN [v EXCEPT !.revealTimer = None, !.cancelledTimers = TRUE]
    ELSE v

\* addSegments(count): a new interval with i = 0.
addSegments(v, count) == [v EXCEPT !.revealTimer = Some([i |-> 0, count |-> count])]

\* The effect on [segments, selected]: the cleanup of the previous run, then
\* the body.
revealEffectRestarts(sel, segs, view) ==
    LET v == revealCleanup(view)
    IN IF sel = NULL \/ Len(segs) = 0
       THEN [v EXCEPT !.visibleSegments = << >>, !.prevSelected = NULL, !.prevTrackLength = 0]
       ELSE LET w == IF sel # v.prevSelected \/ Len(segs) - v.prevTrackLength > 0
                     THEN addSegments([v EXCEPT !.visibleSegments = << >>], Len(segs))
                     ELSE v
            IN [w EXCEPT !.prevTrackLength = Len(segs), !.prevSelected = sel]
revealEffect(sel, segs, view) ==
    LET v == revealCleanup(view)
        diff == Len(segs) - v.prevTrackLength
    IN IF sel = NULL \/ Len(segs) = 0
       THEN [v EXCEPT !.visibleSegments = << >>, !.prevSelected = NULL, !.prevTrackLength = 0]
       ELSE LET w == IF sel # v.prevSelected \/ diff > 1
                     THEN addSegments([v EXCEPT !.visibleSegments = << >>], Len(segs))
                     ELSE IF diff > 0 THEN addSegments(v, diff) ELSE v
            IN [w EXCEPT !.prevTrackLength = Len(segs), !.prevSelected = sel]

\* The effect on [animatedPosition, segments, selected, mapRef]: the live
\* segment from the newest history point to the animated position, or null
\* when nothing is selected, there is no segment or the zoom read at this
\* moment is below the limit (store.mapRef is set while the layer is shown).
currentSegmentEffect(sel, segs, animated, z) ==
    IF sel = NULL \/ Len(segs) = 0 THEN None
    ELSE IF z < animationZoomLimit THEN None
    ELSE Some([startPos |-> segs[1].endPos, endPos |-> animated,
               startAlt |-> segs[1].endAlt, endAlt |-> segs[1].endAlt,
               startTime |-> segs[1].endTime, endTime |-> TimeString(now, "iso"),
               type |-> "current"])

\* The layer after its effects: the segments, the reveal state and the live
\* segment for the animated position the task leaves in the store.
ShowTrack(segs, v, animated) ==
    /\ segments' = segs
    /\ visibleSegments' = v.visibleSegments
    /\ prevSelected' = v.prevSelected
    /\ prevTrackLength' = v.prevTrackLength
    /\ revealTimer' = v.revealTimer
    /\ cancelledTimers' = v.cancelledTimers
    /\ currentSegment' = currentSegmentEffect(selected, segs, animated, zoom)
    /\ UNCHANGED trackMounted

\* store.animatedPosition is set (stored) to animated, a new array: the
\* layer renders and only the live segment effect runs.
TrackOnPosition(stored, animated) ==
    IF trackMounted /\ stored
    THEN /\ currentSegment' = currentSegmentEffect(selected, segments, animated, zoom)
         /\ UNCHANGED <<trackMounted, segments, visibleSegments, prevTrackLength,
                        prevSelected, revealTimer, cancelledTimers>>
    ELSE UNCHANGED trackVars

\* store.history becomes h: when it is a new list the layer renders, the
\* segments are made again and the reveal effect runs on them.
TrackOnHistory(h) ==
    IF trackMounted /\ h # history
    THEN ShowTrack(updateSegments(h), revealEffect(selected, updateSegments(h), TrackView),
                   animatedPosition)
    ELSE UNCHANGED trackVars

\* store.selected has changed and the selection effect of the fetcher resets
\* the history: the reveal effect runs for the new selection on the segments
\* still held, then the segments are made from the empty history and the
\* reveal effect runs again.
TrackOnSelectionSkipped == UNCHANGED trackVars
TrackOnSelection ==
    IF trackMounted
    THEN ShowTrack(updateSegments(<< >>),
                   revealEffect(selected, updateSegments(<< >>),
                                revealEffect(selected, segments, TrackView)),
                   <<0, 0>>)
    ELSE UNCHANGED trackVars

\* --------------------------------------------------- selection pipeline
\* The state in which the map shows both aircraft and the area pipeline is
\* at rest: the component is mounted and a first area reply was handled.
DetailInit ==
    /\ now = 0
    /\ mounted = TRUE
    /\ selected = NULL
    /\ lastHistoryUpdate = 0
    /\ history = << >>
    /\ details = emptySidebarDetails
    /\ animatedPosition = <<0, 0>>
    /\ mapStates = <<MapState("A", 0, "map"), MapState("B", 0, "map")>>
    /\ lastMapUpdate = 0
    /\ effectPending = FALSE
    /\ refreshTimer = NULL
    /\ inflight = EmptyBag
    /\ areaTimer = TRUE
    /\ workerReqs = << >>
    /\ workerMsgs = << >>
    /\ lastEvent = Event("handleFetch", "list", NoInfo)
    /\ ViewInit

\* The callsigns that have a marker on the map.
Markers == { mapStates[i].callsign : i \in 1..Len(mapStates) }

\* A request of a selection effect: its kind, the callsign it was made for
\* and the isCancelled flag of the effect run that issued it.
Request(kind, c) == [kind |-> kind, cs |-> c, cancelled |-> FALSE, issued |-> now]

\* The cancellation check made when a response arrives.
isCancelledBySelection(req) == req.cs # selected
isCancelled(req) == req.cancelled

\* The cleanup of a selection effect: isCancelled = true for its requests.
cancelAll(reqs) ==
    LET Copies(r) == IF r \in BagToSet(reqs) THEN reqs[r] ELSE 0
        cancelled == { [r EXCEPT !.cancelled = TRUE] : r \in BagToSet(reqs) }
    IN [r \in cancelled |-> Copies(r) + Copies([r EXCEPT !.cancelled = FALSE])]

\* One more request in flight; one request answered.
Issue(reqs, req) == reqs (+) SetToBag({req})
Answered(reqs, req) == reqs (-) SetToBag({req})

\* setSelected(callsign): a click on a marker (its callsign) or on the map
\* (null).  Only store.selected changes.
SetSelected(c) ==
    /\ mounted
    /\ ~effectPending
    /\ c # selected
    /\ c = NULL \/ c \in Markers
    /\ BagCardinality(inflight) < MaxInflight
    /\ selected' = c
    /\ effectPending' = TRUE
    /\ lastEvent' = Event("setSelected", c, NoInfo)
    /\ UNCHANGED <<viewVars, now, mounted, lastHistoryUpdate, history, details, animatedPosition,
                   refreshTimer, inflight, areaVars>>

\* The selection effect, after the render that follows setSelected: the
\* cleanup of the previous run, then resetSelected, setDetailLoading,
\* fetchInitial (history and latest state in one Promise.all) and setInterval.
SelectionEffect ==
    /\ effectPending
    /\ effectPending' = FALSE
    /\ history' = << >>
    /\ animatedPosition' = <<0, 0>>
    /\ IF selected = NULL
       THEN /\ details' = emptySidebarDetails
            /\ inflight' = cancelAll(inflight)
            /\ refreshTimer' = NULL
       ELSE /\ details' = setDetailLoading
            /\ inflight' = Issue(cancelAll(inflight), Request("initial", selected))
            /\ refreshTimer' = selected
    /\ lastEvent' = Event("selectionEffect", selected, NoInfo)
    /\ TrackOnSelection
    /\ UNCHANGED <<markerVars, now, mounted, selected, lastHistoryUpdate, areaVars>>

\* The identifier a lookup needs, taken from the latest state.
Identifier(latestState, lookup) ==
    CASE lookup = "aircraft" -> latestState.ids.registration
      [] lookup = "photos" -> latestState.ids.registration
      [] lookup = "airline" -> latestState.ids.airline_icao
      [] lookup = "arrival" -> latestState.ids.arrival_iata
      [] lookup = "departure" -> latestState.ids.departure_iata

UnknownError(lookup) ==
    CASE lookup = "aircraft" -> "Aircraft registration unknown"
      [] lookup = "photos" -> "Aircraft registration unknown"
      [] lookup = "airline" -> "Airline ICAO code unknown"
      [] lookup = "arrival" -> "Arrival airport IATA code unknown"
      [] lookup = "departure" -> "Departure airport IATA code unknown"

NotFoundError(lookup) ==
    CASE lookup = "aircraft" -> "Aircraft not found"
      [] lookup = "photos" -> "Aircraft photos not found"
      [] lookup = "airline" -> "Airline not found"
      [] lookup = "arrival" -> "Arrival airport not found"
      [] lookup = "departure" -> "Departure airport not found"

\* The five dependent lookups of fetchInitial, in program order: a request
\* when the identifier is known, the slot's error at once when it is not.
RECURSIVE startLookups(_, _, _, _)
startLookups(k, latestState, d, reqs) ==
    IF k > Len(Lookups) THEN <<d, reqs>>
    ELSE LET lookup == Lookups[k] IN
         IF Identifier(latestState, lookup) # NULL
         THEN startLookups(k + 1, latestState, d,
                           Issue(reqs, Request(lookup, latestState.callsign)))
         ELSE startLookups(k + 1, latestState,
                           setDetail(d, lookup, Failure(UnknownError(lookup))), reqs)

\* The responses the backend can give to the initial pair of requests made
\* at instant t0 for callsign c: a rejection of either, or a history list
\* (possibly empty) and a latest state, each answered at some instant since.
InitialResponses(c, t0) ==
    { [ok |-> FALSE, history |-> << >>, latestState |-> None] }
    \cup { [ok |-> TRUE, history |-> h, latestState |-> Some(State(c, t))] :
             h \in { << >> } \cup { HistoryRows(c, th) : th \in t0..now },
             t \in t0..now }

\* What fetchInitial does after its first await; <<lastHistoryUpdate,
\* history, details, requests>>.  history[0].time of an empty list throws
\* inside the try block, which lands in the catch like a rejection.
fetchInitialContinue(req, resp, stamp, h, d, reqs) ==
    IF ~resp.ok
    THEN IF isCancelled(req) THEN <<stamp, h, d, reqs>>
         ELSE <<stamp, h, setDetailError("Could not get history data"), reqs>>
    ELSE IF isCancelled(req) THEN <<stamp, h, d, reqs>>
    ELSE IF resp.history = << >>
    THEN <<stamp, h, setDetailError("Could not get history data"), reqs>>
    ELSE LET latestState == resp.latestState[1]
             started == startLookups(1, latestState,
                                     setDetail(d, "state", Success(latestState)), reqs)
         IN <<DateValue(resp.history[1].time), resp.history, started[1], started[2]>>

\* The continuation of fetchInitial for the request req.
InitialResponse(req, resp) ==
    /\ ~effectPending
    /\ req.kind = "initial"
    /\ LET res == fetchInitialContinue(req, resp, lastHistoryUpdate, history, details,
                                       Answered(inflight, req))
       IN /\ lastHistoryUpdate' = res[1]
          /\ history' = res[2]
          /\ details' = res[3]
          /\ inflight' = res[4]
          /\ lastEvent' = Event("initialResponse",
                                IF req.cancelled THEN "stale" ELSE "current",
                                <<req.cs, resp.ok>>)
          /\ TrackOnHistory(res[2])
    /\ UNCHANGED <<markerVars, now, mounted, selected, animatedPosition, effectPending,
                   refreshTimer, areaVars>>

\* What the record of a lookup holds: whose it is.
LookupData(req) == [of |-> req.cs, kind |-> req.kind]

\* The continuation of one dependent lookup; the new details.
lookupContinueAllError(req, ok, d) ==
    IF isCancelled(req) THEN d
    ELSE IF ok THEN setDetail(d, req.kind, Success(LookupData(req)))
    ELSE setDetailError(NotFoundError(req.kind))
lookupContinue(req, ok, d) ==
    IF isCancelled(req) THEN d
    ELSE IF ok THEN setDetail(d, req.kind, Success(LookupData(req)))
    ELSE setDetail(d, req.kind, Failure(NotFoundError(req.kind)))

LookupResponse(req, ok) ==
    /\ ~effectPending
    /\ req.kind \in { Lookups[k] : k \in 1..Len(Lookups) }
    /\ details' = lookupContinue(req, ok, details)
    /\ inflight' = Answered(inflight, req)
    /\ lastEvent' = Event("lookupResponse",
                          IF req.cancelled THEN "stale" ELSE "current",
                          <<req.cs, req.kind, ok>>)
    /\ UNCHANGED <<viewVars, now, mounted, selected, lastHistoryUpdate, history, animatedPosition,
                   effectPending, refreshTimer, areaVars>>

\* The latest-state interval of the selected aircraft fires: fetchLatestState
\* up to its await.
RefreshTick ==
    /\ ~effectPending
    /\ refreshTimer # NULL
    /\ BagCardinality(inflight) < MaxInflight
    /\ inflight' = Issue(inflight, Request("latest", refreshTimer))
    /\ lastEvent' = Event("refreshTick", refreshTimer, NoInfo)
    /\ UNCHANGED <<viewVars, now, mounted, selected, lastHistoryUpdate, history, details,
                   animatedPosition, effectPending, refreshTimer, areaVars>>

\* The answers to a latest-state request made at t0 for callsign c.
LatestResponses(c, t0) ==
    { [ok |-> FALSE, latestState |-> None] }
    \cup { [ok |-> TRUE, latestState |-> Some(State(c, t))] : t \in t0..now }

\* What fetchLatestState does after its await; <<lastHistoryUpdate, history,
\* details>>.
fetchLatestContinue(req, resp, stamp, h, d) ==
    IF ~resp.ok \/ isCancelled(req) THEN <<stamp, h, d>>
    ELSE LET latestState == resp.latestState[1] IN
         << DateValue(latestState.time),
            prependHistory(h, stateToMapState(latestState)),
            setDetail(d, "state", Success(latestState)) >>

LatestResponse(req, resp) ==
    /\ ~effectPending
    /\ req.kind = "latest"
    /\ LET res == fetchLatestContinue(req, resp, lastHistoryUpdate, history, details)
       IN /\ lastHistoryUpdate' = res[1]
          /\ history' = res[2]
          /\ details' = res[3]
          /\ TrackOnHistory(res[2])
    /\ inflight' = Answered(inflight, req)
    /\ lastEvent' = Event("latestResponse",
                          IF req.cancelled THEN "stale" ELSE "current",
                          <<req.cs, resp.ok>>)
    /\ UNCHANGED <<markerVars, now, mounted, selected, animatedPosition, effectPending,
                   refreshTimer, areaVars>>

NextDetail ==
    \/ AdvanceTime
    \/ \E c \in Callsigns \cup {NULL} : SetSelected(c)
    \/ SelectionEffect
    \/ \E req \in BagToSet(inflight) : \E resp \in InitialResponses(req.cs, req.issued) :
          InitialResponse(req, resp)
    \/ \E req \in BagToSet(inflight) : \E ok \in BOOLEAN : LookupResponse(req, ok)
    \/ RefreshTick
    \/ \E req \in BagToSet(inflight) : \E resp \in LatestResponses(req.cs, req.issued) :
          LatestResponse(req, resp)

DetailSpec == DetailInit /\ [][NextDetail]_vars

\* ------------------------------------------------------ the store alone
\* The history mutators of the store applied in any order to any points of
\* one aircraft, in both timestamp formats.
Points == { MapState("A", t, fmt) : t \in Times, fmt \in {"map", "state"} }

SameInstant(h, point) ==
    DateValue(point.time) \in { DateValue(h[i].time) : i \in 1..Len(h) }

StoreSetHistory(h) ==
    /\ history' = h
    /\ lastEvent' = Event("setHistory", NULL, NoInfo)
    /\ UNCHANGED <<viewVars, now, mounted, selected, lastHistoryUpdate, details, animatedPosition,
                   effectPending, refreshTimer, inflight, areaVars>>

StorePrependHistory(point) ==
    /\ Len(history) < MaxHistLen
    /\ history' = prependHistory(history, point)
    /\ lastEvent' = Event("prependHistory",
                          IF SameInstant(history, point) THEN "known" ELSE "new", NoInfo)
    /\ UNCHANGED <<viewVars, now, mounted, selected, lastHistoryUpdate, details, animatedPosition,
                   effectPending, refreshTimer, inflight, areaVars>>

StoreAppendHistory(point) ==
    /\ Len(history) < MaxHistLen
    /\ history' = appendHistory(history, point)
    /\ lastEvent' = Event("appendHistory",
                          IF SameInstant(history, point) THEN "known" ELSE "new", NoInfo)
    /\ UNCHANGED <<viewVars, now, mounted, selected, lastHistoryUpdate, details, animatedPosition,
                   effectPending, refreshTimer, inflight, areaVars>>

StoreResetSelected ==
    /\ history' = << >>
    /\ details' = emptySidebarDetails
    /\ animatedPosition' = <<0, 0>>
    /\ lastEvent' = Event("resetSelected", NULL, NoInfo)
    /\ UNCHANGED <<viewVars, now, mounted, selected, lastHistoryUpdate, effectPending, refreshTimer,
                   inflight, areaVars>>

RECURSIVE SeqsUpTo(_, _)
SeqsUpTo(S, n) ==
    IF n = 0 THEN { << >> }
    ELSE LET shorter == SeqsUpTo(S, n - 1)
         IN shorter \cup { Append(q, x) : q \in shorter, x \in S }

NextStore ==
    \/ \E h \in SeqsUpTo(Points, MaxHistLen) : StoreSetHistory(h)
    \/ \E point \in Points : StorePrependHistory(point)
    \/ \E point \in Points : StoreAppendHistory(point)
    \/ StoreResetSelected

StoreSpec == Init /\ [][NextStore]_vars

\* --------------------------------------------------------- marker layer
\* components/visuals/aircraftMap/AircraftMarkerLayer.tsx.  The layer is
\* given store.mapStates (prop aircraft) and store.selected (prop
\* selectedAircraft), reads store.lastMapUpdate (lastUpdate in the
\* component) and writes store.animatedPosition (setSelectedPosition in the
\* component).  A store mutation, the render and the layer's effects are one
\* task; frame callbacks and zoomend events are tasks of their own.
ZoomLevels == {defaultZoom, animationZoomLimit, animationZoomLimit + 1}

\* <<heading, velocity>> of a snapshot (degrees, m/s), a number or null
\* each: no heading, no velocity, due north, standing still, flying east.
Kinematics ==
    { <<None, Some(2)>>, <<Some(90), None>>, <<Some(0), Some(2)>>, <<Some(90), Some(0)>>,
      <<Some(90), Some(2)>> }

\* A MapState row with the fields the marker layer reads.
Snapshot(c, t, heading, velocity) ==
    [callsign |-> c, time |-> TimeString(t, "map"), position |-> Position(c),
     heading |-> heading, velocity |-> velocity, altitude |-> Altitude(c)]

\* The lists an area query can return at instant t, as the layer sees them:
\* aircraft B flying south, alone or after aircraft A with each kind of
\* heading and velocity.
SnapshotLists(t) ==
    { <<Snapshot("B", t, Some(180), Some(1))>> }
    \cup { <<Snapshot("A", t, k[1], k[2]), Snapshot("B", t, Some(180), Some(1))>> :
             k \in Kinematics }

\* The replies handled while the layer is shown.
BatchMessages ==
    { [error |-> TRUE, data |-> None], [error |-> FALSE, data |-> None],
      [error |-> FALSE, data |-> Some(<< >>)] }
    \cup { [error |-> FALSE, data |-> Some(l)] : l \in UNION { SnapshotLists(t) : t \in 0..now } }

\* !x of an optional number: null and 0 are falsy.
Falsy(x) == x = None \/ x = Some(0)

\* x ?? 0
OrZero(x) == IF x = None THEN 0 ELSE x[1]

\* The forward projection of animate for the four cardinal headings, in the
\* plane (distance / R small): north is +lat, east is +lon.
Cos(h) == CASE h = 0 -> 1 [] h = 90 -> 0 [] h = 180 -> -1 [] h = 270 -> 0
Sin(h) == CASE h = 0 -> 0 [] h = 90 -> 1 [] h = 180 -> 0 [] h = 270 -> -1
project(position, heading, distance) ==
    <<position[1] + distance * Cos(heading), position[2] + distance * Sin(heading)>>

\* Grid units per screen pixel: halves with every zoom level.
UnitsPerPixel(z) == 2 ^ (animationZoomLimit + 1 - z)

\* positionOffset: 3 * scale pixels right and down of the position, as a
\* coordinate difference (down is south: negative latitude).
positionOffset(position, altitude, z) ==
    LET scale == 1 + (2 * OrZero(altitude)) \div 36000
        pixels == 3 * scale
    IN <<0 - pixels * UnitsPerPixel(z), pixels * UnitsPerPixel(z)>>

Keys(aircraft) == { aircraft[i].callsign : i \in 1..Len(aircraft) }

\* The snapshot whose marker is kept under callsign c: the last of the list.
SnapshotOf(aircraft, c) ==
    aircraft[CHOOSE i \in 1..Len(aircraft) :
                /\ aircraft[i].callsign = c
                /\ \A j \in (i + 1)..Len(aircraft) : aircraft[j].callsign # c]

createAircraftIcon(a, sel) ==
    [angle |-> OrZero(a.heading),
     color |-> IF a.callsign = sel THEN "selected" ELSE "normal"]

\* The effect on [aircraft, selectedAircraft]: the layer is cleared and one
\* marker per aircraft is created at its snapshot position plus the offset;
\* without altitudeOffset the position of the selected aircraft is stored.
updateMarkers(aircraft, sel, ao, z, animated) ==
    LET Offset(a) == IF ao THEN positionOffset(a.position, a.altitude, z) ELSE <<0, 0>>
        Marker(a) == [latlng |-> <<a.position[1] + Offset(a)[1], a.position[2] + Offset(a)[2]>>,
                      icon |-> createAircraftIcon(a, sel)]
    IN [aircraftRef |-> aircraft,
        markersRef |-> [c \in Keys(aircraft) |-> Marker(SnapshotOf(aircraft, c))],
        offsetRef |-> IF ao THEN [c \in Keys(aircraft) |-> Offset(SnapshotOf(aircraft, c))]
                      ELSE << >>,
        layer |-> Keys(aircraft),
        animatedPosition |-> IF ~ao /\ sel \in Keys(aircraft)
                             THEN SnapshotOf(aircraft, sel).position ELSE animated]

\* stopAnimation, startAnimation, handleZoom on <<frame, rafQueue>>.
stopAnimationKeepsCallback(f, q) == IF f # NULL THEN <<NULL, q>> ELSE <<f, q>>
stopAnimation(f, q) == IF f # NULL THEN <<NULL, IF q > 0 THEN q - 1 ELSE 0>> ELSE <<f, q>>

startAnimationAlways(f, q) == <<"raf", q + 1>>
startAnimation(f, q) == IF f = NULL THEN <<"raf", q + 1>> ELSE <<f, q>>

handleZoomIgnoresLimit(z, f, q) == startAnimation(f, q)
handleZoom(z, f, q) ==
    IF z < animationZoomLimit THEN stopAnimation(f, q) ELSE startAnimation(f, q)

\* The animation effect runs again: the cleanup of the previous run, then
\* the body with a fresh frame variable.
animationEffect(z, f, q) == handleZoom(z, NULL, stopAnimation(f, q)[2])

\* The test of animate that lets a snapshot be extrapolated.
Extrapolates(a) == ~Falsy(a.velocity) /\ ~Falsy(a.heading)

\* The test of animate that stores the new position of a marker: the
\* marker of the selected aircraft, when it carries no offset.
storesPositionWithOffset(a, sel, offset) == a.callsign = sel
storesPosition(a, sel, offset) == a.callsign = sel /\ offset = <<0, 0>>

\* What animate puts on the layer after clearing it: every marker.
addMarkersMovedOnly(markers, updated) == updated
addMarkers(markers, updated) == DOMAIN markers

\* The loop of animate from the k-th snapshot on.
RECURSIVE animateLoop(_, _, _, _, _, _)
animateLoop(k, markers, animated, updated, sel, dt) ==
    IF k > Len(aircraftRef)
    THEN [markersRef |-> markers, animatedPosition |-> animated, updateMarkers |-> updated]
    ELSE LET a == aircraftRef[k]
             offset == IF a.callsign \in DOMAIN offsetRef THEN offsetRef[a.callsign]
                       ELSE <<0, 0>>
         IN IF a.callsign \notin DOMAIN markers \/ ~Extrapolates(a)
            THEN animateLoop(k + 1, markers, animated, updated, sel, dt)
            ELSE LET p == project(a.position, a.heading[1], a.velocity[1] * dt)
                     new == <<p[1] + offset[1], p[2] + offset[2]>>
                 IN animateLoop(k + 1, [markers EXCEPT ![a.callsign].latlng = new],
                                IF storesPosition(a, sel, offset) THEN new ELSE animated,
                                updated \cup {a.callsign}, sel, dt)

\* animate calls setSelectedPosition: some snapshot with a marker is
\* extrapolated and passes the test that stores its position.
animateStores(markers, sel) ==
    \E k \in 1..Len(aircraftRef) :
        LET a == aircraftRef[k]
            offset == IF a.callsign \in DOMAIN offsetRef THEN offsetRef[a.callsign]
                      ELSE <<0, 0>>
        IN a.callsign \in DOMAIN markers /\ Extrapolates(a) /\ storesPosition(a, sel, offset)

\* The fetcher is mounted and no reply was handled yet; no layer is mounted.
AnimInit ==
    /\ now = 0
    /\ mounted = TRUE
    /\ selected = NULL
    /\ lastHistoryUpdate = 0
    /\ history = << >>
    /\ details = emptySidebarDetails
    /\ animatedPosition = <<0, 0>>
    /\ mapStates = << >>
    /\ lastMapUpdate = 0
    /\ effectPending = FALSE
    /\ refreshTimer = NULL
    /\ inflight = EmptyBag
    /\ areaTimer = TRUE
    /\ workerReqs = << >>
    /\ workerMsgs = << >>
    /\ lastEvent = Event("mount", NULL, NoInfo)
    /\ ViewInit

\* The layer is mounted: the canvas is created, the markers are built from
\* the current batch and the animation effect runs for the first time.
MountLayer(ao) ==
    /\ ~layerMounted
    /\ ~effectPending
    /\ layerMounted' = TRUE
    /\ altitudeOffset' = ao
    /\ LET view == updateMarkers(mapStates, selected, ao, zoom, animatedPosition)
           anim == handleZoom(zoom, NULL, rafQueue)
       IN /\ aircraftRef' = view.aircraftRef
          /\ markersRef' = view.markersRef
          /\ offsetRef' = view.offsetRef
          /\ layer' = view.layer
          /\ animatedPosition' = view.animatedPosition
          /\ frame' = anim[1]
          /\ rafQueue' = anim[2]
    /\ lastEvent' = Event("mountLayer", NULL, NoInfo)
    /\ UNCHANGED <<trackVars, now, mounted, selected, lastHistoryUpdate, history, details, effectPending,
                   refreshTimer, inflight, areaVars, zoom>>

\* The layer is unmounted: the cleanups stop the animation and remove the
\* canvas; the refs go with the component.
UnmountLayer ==
    /\ layerMounted
    /\ ~effectPending
    /\ layerMounted' = FALSE
    /\ altitudeOffset' = FALSE
    /\ aircraftRef' = << >>
    /\ markersRef' = << >>
    /\ offsetRef' = << >>
    /\ layer' = {}
    /\ LET anim == stopAnimation(frame, rafQueue)
       IN frame' = anim[1] /\ rafQueue' = anim[2]
    /\ lastEvent' = Event("unmountLayer", NULL, NoInfo)
    /\ UNCHANGED <<trackVars, now, mounted, selVars, areaVars, zoom>>

\* A reply of the area pipeline is handled (handleFetch), the layer renders
\* with the new props and its effects run: the markers are rebuilt when
\* setMapStates was called, the animation effect runs again when
\* lastMapUpdate changed; the track layer renders when the position of the
\* selected aircraft was stored.
BatchReply(msg) ==
    /\ mounted
    /\ ~effectPending
    /\ LET res == handleFetch(msg, mapStates, lastMapUpdate)
           rebuilt == layerMounted /\ MessageKind(msg) \in {"list", "nodata"}
           view == updateMarkers(res[1], selected, altitudeOffset, zoom, animatedPosition)
           anim == IF layerMounted /\ res[2] # lastMapUpdate
                   THEN animationEffect(zoom, frame, rafQueue) ELSE <<frame, rafQueue>>
       IN /\ mapStates' = res[1]
          /\ lastMapUpdate' = res[2]
          /\ aircraftRef' = IF rebuilt THEN view.aircraftRef ELSE aircraftRef
          /\ markersRef' = IF rebuilt THEN view.markersRef ELSE markersRef
          /\ offsetRef' = IF rebuilt THEN view.offsetRef ELSE offsetRef
          /\ layer' = IF rebuilt THEN view.layer ELSE layer
          /\ animatedPosition' = IF rebuilt THEN view.animatedPosition ELSE animatedPosition
          /\ frame' = anim[1]
          /\ rafQueue' = anim[2]
          /\ TrackOnPosition(rebuilt /\ ~altitudeOffset /\ selected \in Keys(res[1]),
                             view.animatedPosition)
    /\ lastEvent' = Event("handleFetch", MessageKind(msg), NoInfo)
    /\ UNCHANGED <<now, mounted, selected, lastHistoryUpdate, history, details, effectPending,
                   refreshTimer, inflight, areaTimer, workerReqs, workerMsgs, zoom,
                   layerMounted, altitudeOffset>>

\* A click on a marker (its title) or on the map (null): setSelected, then
\* the render and the effects that depend on the selection.  The selection
\* effect of the fetcher comes first and resets the animated position (the
\* requests it starts touch nothing the layer reads: DetailSpec); then the
\* layer rebuilds its markers and runs the animation effect again.
Click(c) ==
    /\ layerMounted
    /\ ~effectPending
    /\ c # selected
    /\ c = NULL \/ c \in DOMAIN markersRef
    /\ selected' = c
    /\ LET reset == IF mounted THEN <<0, 0>> ELSE animatedPosition
           view == updateMarkers(mapStates, c, altitudeOffset, zoom, reset)
           anim == animationEffect(zoom, frame, rafQueue)
       IN /\ aircraftRef' = view.aircraftRef
          /\ markersRef' = view.markersRef
          /\ offsetRef' = view.offsetRef
          /\ layer' = view.layer
          /\ animatedPosition' = view.animatedPosition
          /\ frame' = anim[1]
          /\ rafQueue' = anim[2]
    /\ lastEvent' = Event("click", NULL, <<c>>)
    /\ UNCHANGED <<trackVars, now, mounted, lastHistoryUpdate, history, details, effectPending,
                   refreshTimer, inflight, areaVars, zoom, layerMounted, altitudeOffset>>

\* The map ends a zoom at level z: handleZoom of the current effect run.
\* The event records the level the zoom started from.
ZoomEnd(z) ==
    /\ ~effectPending
    /\ z # zoom
    /\ zoom' = z
    /\ LET anim == IF layerMounted THEN handleZoom(z, frame, rafQueue) ELSE <<frame, rafQueue>>
       IN frame' = anim[1] /\ rafQueue' = anim[2]
    /\ lastEvent' = Event("zoomend", NULL, <<zoom>>)
    /\ UNCHANGED <<trackVars, now, mounted, selVars, areaVars, layerMounted, altitudeOffset, aircraftRef,
                   markersRef, offsetRef, layer>>

\* A scheduled frame callback runs: animate.  The markers that are moved
\* make the layer be cleared and filled again; the next frame is requested.
\* The track layer renders when the position of the selected aircraft was
\* stored.
Frame ==
    /\ rafQueue > 0
    /\ ~effectPending
    /\ LET res == animateLoop(1, markersRef, animatedPosition, {}, selected,
                              ElapsedSeconds(now, lastMapUpdate))
           redraw == res.updateMarkers # {}
       IN /\ markersRef' = res.markersRef
          /\ animatedPosition' = res.animatedPosition
          /\ layer' = IF redraw THEN addMarkers(res.markersRef, res.updateMarkers) ELSE layer
          /\ lastEvent' = Event("frame", IF redraw THEN "redraw" ELSE "still",
                                IF redraw THEN <<"clear", "addMarkers">> ELSE NoInfo)
          /\ TrackOnPosition(animateStores(markersRef, selected), res.animatedPosition)
    /\ frame' = "raf"
    /\ rafQueue' = rafQueue
    /\ UNCHANGED <<now, mounted, selected, lastHistoryUpdate, history, details, effectPending,
                   refreshTimer, inflight, areaVars, zoom, layerMounted, altitudeOffset,
                   aircraftRef, offsetRef>>

NextAnim ==
    \/ AdvanceTime
    \/ \E ao \in BOOLEAN : MountLayer(ao)
    \/ UnmountLayer
    \/ \E msg \in BatchMessages : BatchReply(msg)
    \/ \E c \in Callsigns \cup {NULL} : Click(c)
    \/ \E z \in ZoomLevels : ZoomEnd(z)
    \/ Frame

AnimSpec == AnimInit /\ [][NextAnim]_vars

\* ------------------------------------------------- track layer, running
\* The flights the track layer is followed on.
TrackCallsigns == {"C", "D"}

\* The state in which the map shows flights C and D, nothing is selected
\* and the track layer is mounted.
TrackInit ==
    /\ now = 0
    /\ mounted = TRUE
    /\ selected = NULL
    /\ lastHistoryUpdate = 0
    /\ history = << >>
    /\ details = emptySidebarDetails
    /\ animatedPosition = <<0, 0>>
    /\ mapStates = <<MapState("C", 0, "map"), MapState("D", 0, "map")>>
    /\ lastMapUpdate = 0
    /\ effectPending = FALSE
    /\ refreshTimer = NULL
    /\ inflight = EmptyBag
    /\ areaTimer = TRUE
    /\ workerReqs = << >>
    /\ workerMsgs = << >>
    /\ lastEvent = Event("handleFetch", "list", NoInfo)
    /\ MarkerLayerInit
    /\ TrackLayerInit
    /\ trackMounted = TRUE

\* The interval of the current reveal run ticks: the next segment becomes
\* visible; after the last one the interval is cleared.
RevealTick ==
    /\ trackMounted
    /\ ~effectPending
    /\ revealTimer # None
    /\ LET t == revealTimer[1]
       IN IF t.i + 1 > Len(segments)
          THEN UNCHANGED <<visibleSegments, revealTimer>>
          ELSE /\ visibleSegments' = Append(visibleSegments, segments[t.i + 1])
               /\ revealTimer' = IF t.i + 1 >= t.count THEN None
                                 ELSE Some([t EXCEPT !.i = @ + 1])
    /\ lastEvent' = Event("revealTick", "current", NoInfo)
    /\ UNCHANGED <<markerVars, now, mounted, selVars, areaVars, trackMounted, segments,
                   prevTrackLength, prevSelected, cancelledTimers, currentSegment>>

\* The interval of an earlier run ticks: isCancelled is set, it clears itself
\* and writes nothing; others of its kind may remain.
CancelledTick ==
    /\ trackMounted
    /\ ~effectPending
    /\ cancelledTimers
    /\ cancelledTimers' \in BOOLEAN
    /\ lastEvent' = Event("revealTick", "stale", NoInfo)
    /\ UNCHANGED <<markerVars, now, mounted, selVars, areaVars, trackMounted, segments,
                   visibleSegments, prevTrackLength, prevSelected, revealTimer, currentSegment>>

\* The replies to the initial pair the track layer is followed on: the
\* history and the latest state answered at the same instant (the latest
\* state of the pair goes to the details only).
TrackResponses(c, t0) ==
    { resp \in InitialResponses(c, t0) :
        (resp.ok /\ resp.history # << >>) =>
            DateValue(resp.history[1].time) = DateValue(resp.latestState[1].time) }

NextTrack ==
    \/ AdvanceTime
    \/ \E c \in TrackCallsigns \cup {NULL} : SetSelected(c)
    \/ SelectionEffect
    \/ \E req \in BagToSet(inflight) : \E resp \in TrackResponses(req.cs, req.issued) :
          InitialResponse(req, resp)
    \/ RefreshTick
    \/ \E req \in BagToSet(inflight) : \E resp \in LatestResponses(req.cs, req.issued) :
          LatestResponse(req, resp)
    \/ RevealTick
    \/ CancelledTick

TrackSpec == TrackInit /\ [][NextTrack]_vars

\* ------------------------------------------------------ the live segment
\* The marker layer and the track layer on one map: the selected flight is
\* followed from the click on its marker to its track and its live segment.
\* The refresh of the latest state is followed with the track layer alone
\* (TrackSpec).

\* The flight that is selected while both layers are shown.
LiveCallsign == "D"

\* The lists an area query can return at instant t while both layers are
\* shown: flight D flying east, flight D without a heading, or flight B
\* alone (flight D has left the area).
LiveLists(t) ==
    { <<Snapshot(LiveCallsign, t, Some(90), Some(2))>>,
      <<Snapshot(LiveCallsign, t, None, Some(2))>>,
      <<Snapshot("B", t, Some(180), Some(1))>> }

LiveMessages ==
    { [error |-> FALSE, data |-> Some(l)] : l \in UNION { LiveLists(t) : t \in 0..now } }

\* The fetcher and the track layer are mounted, the marker layer is not yet;
\* no reply was handled.
LiveInit ==
    /\ now = 0
    /\ mounted = TRUE
    /\ selected = NULL
    /\ lastHistoryUpdate = 0
    /\ history = << >>
    /\ details = emptySidebarDetails
    /\ animatedPosition = <<0, 0>>
    /\ mapStates = << >>
    /\ lastMapUpdate = 0
    /\ effectPending = FALSE
    /\ refreshTimer = NULL
    /\ inflight = EmptyBag
    /\ areaTimer = TRUE
    /\ workerReqs = << >>
    /\ workerMsgs = << >>
    /\ lastEvent = Event("mount", NULL, NoInfo)
    /\ MarkerLayerInit
    /\ TrackLayerInit
    /\ trackMounted = TRUE

\* A click on the marker of c or on the map (null), as one task: setSelected,
\* the render, then the effects that depend on the selection.  The selection
\* effect of the fetcher resets history and animated position and starts
\* the requests; the marker layer rebuilds its markers (storing the snapshot
\* position of c when it draws without offset) and runs the animation effect
\* again; the track layer runs its effects for the new selection and the
\* emptied history.
Select(c) ==
    /\ mounted /\ layerMounted /\ trackMounted
    /\ ~effectPending
    /\ c # selected
    /\ c = NULL \/ c \in DOMAIN markersRef
    /\ BagCardinality(inflight) < MaxInflight
    /\ selected' = c
    /\ history' = << >>
    /\ IF c = NULL
       THEN /\ details' = emptySidebarDetails
            /\ inflight' = cancelAll(inflight)
            /\ refreshTimer' = NULL
       ELSE /\ details' = setDetailLoading
            /\ inflight' = Issue(cancelAll(inflight), Request("initial", c))
            /\ refreshTimer' = c
    /\ LET view == updateMarkers(mapStates, c, altitudeOffset, zoom, <<0, 0>>)
           anim == animationEffect(zoom, frame, rafQueue)
       IN /\ aircraftRef' = view.aircraftRef
          /\ markersRef' = view.markersRef
          /\ offsetRef' = view.offsetRef
          /\ layer' = view.layer
          /\ animatedPosition' = view.animatedPosition
          /\ frame' = anim[1]
          /\ rafQueue' = anim[2]
          /\ LET v == revealEffect(c, updateSegments(<< >>),
                                   revealEffect(c, segments, TrackView))
             IN /\ segments' = updateSegments(<< >>)
                /\ visibleSegments' = v.visibleSegments
                /\ prevSelected' = v.prevSelected
                /\ prevTrackLength' = v.prevTrackLength
                /\ revealTimer' = v.revealTimer
                /\ cancelledTimers' = v.cancelledTimers
                /\ currentSegment' = currentSegmentEffect(c, updateSegments(<< >>),
                                                          view.animatedPosition, zoom)
    /\ lastEvent' = Event("select", c, NoInfo)
    /\ UNCHANGED <<now, mounted, lastHistoryUpdate, effectPending, areaVars, zoom,
                   layerMounted, altitudeOffset, trackMounted>>

NextLive ==
    \/ AdvanceTime
    \/ \E ao \in BOOLEAN : MountLayer(ao)
    \/ \E msg \in LiveMessages : BatchReply(msg)
    \/ \E c \in {LiveCallsign, NULL} : Select(c)
    \/ \E req \in BagToSet(inflight) : \E resp \in TrackResponses(req.cs, req.issued) :
          InitialResponse(req, resp)
    \/ \E z \in ZoomLevels : ZoomEnd(z)
    \/ Frame
    \/ RevealTick
    \/ CancelledTick

LiveSpec == LiveInit /\ [][NextLive]_vars

\* ------------------------------------------------ the fetcher's timers
\* Mount while the store holds a selection: the area effect as in Mount, the
\* selection effect as after a click (resetSelected, setDetailLoading,
\* fetchInitial, setInterval).
MountSelected ==
    /\ ~mounted
    /\ selected # NULL
    /\ BagCardinality(inflight) < MaxInflight
    /\ mounted' = TRUE
    /\ areaTimer' = TRUE
    /\ workerReqs' = startFetch(workerReqs)
    /\ history' = << >>
    /\ animatedPosition' = <<0, 0>>
    /\ details' = setDetailLoading
    /\ inflight' = Issue(inflight, Request("initial", selected))
    /\ refreshTimer' = selected
    /\ lastEvent' = Event("mount", selected, NoInfo)
    /\ UNCHANGED <<viewVars, now, selected, lastHistoryUpdate, mapStates, lastMapUpdate,
                   effectPending, workerMsgs>>

\* Unmount: the cleanups of both effects.  The area effect detaches the
\* moveend handler, clears its interval, removes the message listener and
\* terminates the worker (the requests inside it and its replies not yet
\* handled are lost); the selection effect sets isCancelled and clears the
\* latest-state interval.
UnmountKeepsRefresh ==
    /\ mounted
    /\ ~effectPending
    /\ mounted' = FALSE
    /\ areaTimer' = FALSE
    /\ workerReqs' = << >>
    /\ workerMsgs' = << >>
    /\ inflight' = cancelAll(inflight)
    /\ lastEvent' = Event("unmount", NULL, NoInfo)
    /\ UNCHANGED <<viewVars, now, selected, lastHistoryUpdate, history, details,
                   animatedPosition, mapStates, lastMapUpdate, effectPending, refreshTimer>>
Unmount ==
    /\ mounted
    /\ ~effectPending
    /\ mounted' = FALSE
    /\ areaTimer' = FALSE
    /\ workerReqs' = << >>
    /\ workerMsgs' = << >>
    /\ refreshTimer' = NULL
    /\ inflight' = cancelAll(inflight)
    /\ lastEvent' = Event("unmount", NULL, NoInfo)
    /\ UNCHANGED <<viewVars, now, selected, lastHistoryUpdate, history, details,
                   animatedPosition, mapStates, lastMapUpdate, effectPending>>

\* The rejections of the two kinds of request (what a response carries
\* plays no part in the timers).
Rejections(kind) ==
    IF kind = "initial" THEN { [ok |-> FALSE, history |-> << >>, latestState |-> None] }
    ELSE { [ok |-> FALSE, latestState |-> None] }

NextTimer ==
    \/ Mount
    \/ MountSelected
    \/ Unmount
    \/ \E trigger \in {"interval", "moveend"} : StartFetch(trigger)
    \/ \E i \in 1..Len(workerReqs) : \E msg \in WorkerMessages(workerReqs[i].issued) :
          WorkerReply(i, msg)
    \/ HandleFetch
    \/ \E c \in Callsigns \cup {NULL} : SetSelected(c)
    \/ SelectionEffect
    \/ RefreshTick
    \/ \E req \in BagToSet(inflight) : \E resp \in Rejections("initial") :
          InitialResponse(req, resp)
    \/ \E req \in BagToSet(inflight) : \E resp \in Rejections("latest") :
          LatestResponse(req, resp)

TimerSpec == Init /\ [][NextTimer]_vars

\* ================================================================ claims
LookupSlots == { Lookups[k] : k \in 1..Len(Lookups) }

\* The callsign the data of a detail slot belongs to.
Owner(slot, data) == IF slot = "state" THEN data.callsign ELSE data.of

\* The step handles the oldest worker reply.
HandlesReply == workerMsgs # << >> /\ workerMsgs' = Tail(workerMsgs)

\* The step is the continuation of the request req (its response arrived).
Answers(req) == req \in BagToSet(inflight) /\ inflight' = Answered(inflight, req)

\* C1 (reset law): in every state the history points and the data of every
\* detail slot belong to the selected callsign; nothing of a previously
\* selected aircraft is held once the new selection is observable, and
\* nothing at all when no aircraft is selected.
C1_ResetLaw ==
    /\ \A i \in 1..Len(history) : history[i].callsign = selected
    /\ \A slot \in Slots :
          details[slot].data # None => Owner(slot, details[slot].data[1]) = selected
    /\ selected = NULL => details = emptySidebarDetails /\ animatedPosition = <<0, 0>>

\* C2 (stale-response guard): a step in which the response or rejection of a
\* request arrives whose selection effect has been cleaned up since (the
\* selection changed after it was issued) writes nothing to history,
\* lastHistoryUpdate or details, also when its callsign is selected again.
C2_StaleResponseDiscarded ==
    [][ \A req \in BagToSet(inflight) :
           (req.cancelled /\ Answers(req)) =>
              UNCHANGED <<history, lastHistoryUpdate, details>> ]_vars

\* C2 witness: a successful initial response for callsign A was discarded
\* as stale while A is selected again and its new load is still under way.
C2_Witness ==
    /\ lastEvent = Event("initialResponse", "stale", <<"A", TRUE>>)
    /\ selected = "A"
    /\ details["state"].status = "loading"

\* C3 (wholesale replacement): a step that handles a successful area reply
\* carrying a list leaves the batch equal to exactly that list, the empty
\* list included.
C3_BatchReplaced ==
    [][ (HandlesReply /\ ~Head(workerMsgs).error /\ Head(workerMsgs).data # None) =>
           mapStates' = Head(workerMsgs).data[1] ]_vars

\* C4 (failed area fetch): a step that handles an error reply of the worker
\* leaves the batch and its refresh timestamp as they were, and the area
\* interval and the listeners stay in place for later fetches.
C4_FailureKeepsBatch ==
    [][ (HandlesReply /\ Head(workerMsgs).error) =>
           /\ mapStates' = mapStates
           /\ lastMapUpdate' = lastMapUpdate
           /\ areaTimer' /\ mounted' ]_vars

\* C4 witness: an error reply was handled while the batch held aircraft and
\* a further request is already under way.
C4_Witness ==
    /\ lastEvent = Event("handleFetch", "error", NoInfo)
    /\ mapStates # << >>
    /\ workerReqs # << >>

\* C5 (last response wins): when the reply handled last of several
\* overlapping area requests is a successful one, then with no request and
\* no reply left the batch equals the contents of that reply.
C5_LastResponseWins ==
    [][ (/\ HandlesReply
         /\ ~Head(workerMsgs).error /\ Head(workerMsgs).data # None
         /\ workerReqs' = << >> /\ workerMsgs' = << >>) =>
           mapStates' = Head(workerMsgs).data[1] ]_vars

\* C6 (history dedup): for every history the store reaches and every point
\* whose instant is already in it, prependHistory and appendHistory return
\* the history unchanged; and inserting any point twice gives what
\* inserting it once gives.
C6_HistoryDedup ==
    \A point \in Points :
       /\ SameInstant(history, point) =>
             /\ prependHistory(history, point) = history
             /\ appendHistory(history, point) = history
       /\ prependHistory(prependHistory(history, point), point)
             = prependHistory(history, point)
       /\ appendHistory(appendHistory(history, point), point)
             = appendHistory(history, point)

\* C6 witness: prependHistory was applied with a point whose instant the
\* history already held, written in the other timestamp format.
C6_Witness ==
    /\ lastEvent = Event("prependHistory", "known", NoInfo)
    /\ Len(history) >= 2
    /\ \E point \in Points :
          SameInstant(history, point) /\ ~ \E i \in 1..Len(history) : history[i] = point

\* C7 (unique times): in every state of the fetcher no two history points
\* denote the same instant.
C7_UniqueTimes ==
    \A i, j \in 1..Len(history) :
       i # j => DateValue(history[i].time) # DateValue(history[j].time)

\* C7 witness: a periodic refresh of the selected aircraft succeeded on top
\* of a loaded history and was not inserted: the newest point is still a row
\* of the history endpoint.
C7_Witness ==
    /\ lastEvent = Event("latestResponse", "current", <<selected, TRUE>>)
    /\ Len(history) >= 2
    /\ history[1].time[2] = "map"

\* C8 (newest first): in every state the history is strictly decreasing in
\* time from its first point on.
C8_NewestFirst ==
    \A i \in 1..(Len(history) - 1) :
       DateValue(history[i].time) > DateValue(history[i + 1].time)

\* C9 (isolated lookups): the continuation of a dependent lookup of the
\* current selection sets its own slot to success or error as the lookup
\* went and leaves every other slot as it was; the initial response sets to
\* error exactly the lookup slots whose identifier is missing; and a lookup
\* slot that holds success keeps it until the selection changes.
C9_LookupIsolated ==
    [][ /\ \A req \in BagToSet(inflight) :
              (req.kind \in LookupSlots /\ ~req.cancelled /\ Answers(req)) =>
                 /\ \A slot \in Slots \ {req.kind} : details'[slot] = details[slot]
                 /\ details'[req.kind].status =
                       IF lastEvent'.info[3] THEN "success" ELSE "error"
        /\ (lastEvent'.op = "initialResponse" /\ lastEvent'.kind = "current"
               /\ details'["state"].status = "success") =>
              \A slot \in LookupSlots :
                 details'[slot].status =
                    IF Identifier(details'["state"].data[1], slot) = NULL
                    THEN "error" ELSE "loading"
        /\ \A slot \in LookupSlots :
              (~effectPending /\ details[slot].status = "success") =>
                 details'[slot].status = "success" ]_vars

\* C9 witness: all lookups of flight A are done; the arrival lookup failed,
\* registration and departure airport are unknown, and the airline lookup
\* ended in success.
C9_Witness ==
    /\ selected = "A"
    /\ inflight = EmptyBag
    /\ details["aircraft"].status = "error"
    /\ details["arrival"] = Failure("Arrival airport not found")
    /\ details["airline"].status = "success"
    /\ details["departure"] = Failure("Departure airport IATA code unknown")

\* What a timer tick would have to request again for a slot in error.
RetryKinds(slot) == IF slot = "state" THEN {"initial"} ELSE {"initial", slot}

\* C10 (retry on the next tick): a tick of the selected aircraft's timer
\* taken while a detail slot is in error after a rejected request leaves a
\* new request for that data in flight.
C10_RetryOnTick ==
    [][ lastEvent'.op = "refreshTick" =>
           \A slot \in Slots :
              (details[slot].status = "error"
                  /\ details[slot].error \in
                        {"Could not get history data"} \cup
                        { NotFoundError(l) : l \in LookupSlots }) =>
                 \E req \in BagToSet(inflight') :
                    ~req.cancelled /\ req.kind \in RetryKinds(slot) ]_vars


\* ------------------------------------------------------ marker layer claims
\* The offset animate applies to the marker of callsign c.
OffsetOf(c) == IF c \in DOMAIN offsetRef THEN offsetRef[c] ELSE <<0, 0>>

\* The position the kinematic model gives a snapshot with known heading and
\* velocity at the current instant.
Kinematic(a) ==
    project(a.position, a.heading[1], a.velocity[1] * ElapsedSeconds(now, lastMapUpdate))

Shifted(p, offset) == <<p[1] + offset[1], p[2] + offset[2]>>

Known(a) == a.heading # None /\ a.velocity # None

\* The tasks that build the marker set.
RebuildOps == {"handleFetch", "click", "mountLayer", "unmountLayer"}

\* C11: in every state in which the current batch has no aircraft, no frame
\* callback is scheduled, whatever the zoom.
C11_IdleWhenEmpty == (layerMounted /\ aircraftRef = << >>) => rafQueue = 0

\* C12: while the zoom is below the animation threshold no frame callback is
\* pending and the displayed coordinate of a marker changes only when the
\* marker set is rebuilt, also after batch refreshes and selection changes
\* that run the animation effect again.
C12_ZoomGate ==
    [][ (zoom' < animationZoomLimit) =>
          /\ rafQueue' = 0
          /\ (zoom < animationZoomLimit /\ lastEvent'.op \notin RebuildOps) =>
                markersRef' = markersRef ]_vars

\* The animation effect has just run again at a zoom below the threshold
\* while a marker of the batch would move in a frame.
C12_Witness ==
    /\ layerMounted
    /\ zoom < animationZoomLimit
    /\ lastEvent.op = "click"
    /\ selected # NULL
    /\ now > lastMapUpdate
    /\ \E k \in 1..Len(aircraftRef) : Extrapolates(aircraftRef[k])

\* C13: once the layer is unmounted no frame callback is pending or runs;
\* when the animation effect is cleaned up and runs again, the only
\* callback pending is the one of the new run.
C13_NoFrameAfterTeardown ==
    [][ /\ ~layerMounted' => (rafQueue' = 0 /\ lastEvent'.op # "frame")
        /\ lastEvent'.op = "click" => rafQueue' = (IF frame' = NULL THEN 0 ELSE 1) ]_vars

\* The layer was unmounted while its loop was running.
C13_Witness ==
    /\ ~layerMounted
    /\ lastEvent.op = "unmountLayer"
    /\ zoom >= animationZoomLimit
    /\ mapStates # << >>

\* C14: a frame moves the marker of a snapshot to the projected position
\* if and only if heading and velocity are both known (0 included); the
\* marker of any other snapshot stays where it was.
C14_ExtrapolatedIffKnown ==
    [][ lastEvent'.op = "frame" =>
          \A k \in 1..Len(aircraftRef) :
              LET a == aircraftRef[k]
                  c == a.callsign
              IN c \in DOMAIN markersRef =>
                    markersRef'[c].latlng =
                        IF Known(a) THEN Shifted(Kinematic(a), OffsetOf(c))
                        ELSE markersRef[c].latlng ]_vars

\* C15: after a frame of a layer without offset, the animated position is
\* the kinematic position of the selected aircraft whenever that aircraft
\* is in the batch with known heading and velocity.
C15_AnimatedPositionFollows ==
    [][ (lastEvent'.op = "frame" /\ ~altitudeOffset /\ selected \in Keys(aircraftRef)
         /\ Known(SnapshotOf(aircraftRef, selected))) =>
          /\ animatedPosition' = Kinematic(SnapshotOf(aircraftRef, selected))
          /\ animatedPosition' = markersRef'[selected].latlng ]_vars


\* The calls a task made on the canvas layer.
LayerCalls(e) == { e.info[i] : i \in 1..Len(e.info) }

SameIcons == \A c \in DOMAIN markersRef \cap DOMAIN markersRef' :
                 markersRef'[c].icon = markersRef[c].icon

\* C16 (as claimed): a frame updates coordinates in place: it never clears
\* the layer, never adds or removes a marker and leaves icons and rotations
\* unchanged; only building the marker set clears the layer.
C16_FrameInPlace ==
    [][ lastEvent'.op = "frame" =>
          /\ "clear" \notin LayerCalls(lastEvent')
          /\ DOMAIN markersRef' = DOMAIN markersRef
          /\ layer' = layer
          /\ SameIcons ]_vars

\* C16 (amended): a frame never adds, removes or replaces a marker and
\* leaves icons and rotations unchanged; when it moves a marker it clears the
\* layer and adds the same markers again, so the layer shows the same
\* markers after it; the marker set changes only in the tasks that build it.
C16_FrameKeepsMarkers ==
    [][ /\ lastEvent'.op = "frame" =>
              /\ DOMAIN markersRef' = DOMAIN markersRef
              /\ layer' = layer
              /\ SameIcons
              /\ LayerCalls(lastEvent') # {} <=> lastEvent'.kind = "redraw"
        /\ (DOMAIN markersRef' # DOMAIN markersRef \/ layer' # layer \/ ~SameIcons) =>
              lastEvent'.op \in RebuildOps ]_vars

\* A frame has moved one marker of the layer and not the other.
C16_Witness ==
    /\ lastEvent.op = "frame"
    /\ lastEvent.kind = "redraw"
    /\ now > lastMapUpdate
    /\ Cardinality(layer) = 2
    /\ \E k \in 1..Len(aircraftRef) : ~Extrapolates(aircraftRef[k])

\* C17: a frame leaves the snapshots of the batch as they are, places every
\* marker it moves at the projection of the snapshot position plus the
\* offset, and stores as animated position nothing but the projection
\* itself; no other task stores an offset position either.
C17_OffsetIsCosmetic ==
    [][ /\ lastEvent'.op = "frame" =>
              /\ aircraftRef' = aircraftRef
              /\ mapStates' = mapStates
              /\ \A k \in 1..Len(aircraftRef) :
                     LET a == aircraftRef[k]
                     IN (a.callsign \in DOMAIN markersRef /\ Extrapolates(a)) =>
                            markersRef'[a.callsign].latlng =
                                Shifted(Kinematic(a), OffsetOf(a.callsign))
              /\ animatedPosition' # animatedPosition =>
                     \E k \in 1..Len(aircraftRef) :
                         /\ Extrapolates(aircraftRef[k])
                         /\ animatedPosition' = Kinematic(aircraftRef[k])
        /\ (lastEvent'.op # "frame" /\ animatedPosition' # animatedPosition) =>
              \/ animatedPosition' = <<0, 0>>
              \/ \E k \in 1..Len(mapStates') : animatedPosition' = mapStates'[k].position ]_vars

\* A frame of a layer with offset has moved the marker of the selected
\* aircraft.
C17_Witness ==
    /\ altitudeOffset
    /\ lastEvent.op = "frame"
    /\ lastEvent.kind = "redraw"
    /\ now > lastMapUpdate
    /\ selected \in Keys(aircraftRef)
    /\ Extrapolates(SnapshotOf(aircraftRef, selected))

\* A history ordered most-recent-first.
MostRecentFirst(h) ==
    \A i \in 1..(Len(h) - 1) : DateValue(h[i].time) > DateValue(h[i + 1].time)

\* C18 (segments of a history): the track layer holds one segment per pair
\* of adjacent history points, none for a history of fewer than two points;
\* segment i starts at point i + 1 and ends at point i, in time, position and
\* altitude; consecutive segments share their end/start time, the first one
\* ends at the newest and the last one starts at the oldest point; and for a
\* history ordered most-recent-first no segment ends before it starts.
C18_SegmentsCoverHistory ==
    trackMounted =>
        /\ Len(segments) = IF Len(history) >= 2 THEN Len(history) - 1 ELSE 0
        /\ \A i \in 1..Len(segments) :
              /\ segments[i].startTime = history[i + 1].time
              /\ segments[i].endTime = history[i].time
              /\ segments[i].startPos = history[i + 1].position
              /\ segments[i].endPos = history[i].position
              /\ segments[i].startAlt = history[i + 1].altitude
              /\ segments[i].endAlt = history[i].altitude
        /\ \A i \in 1..(Len(segments) - 1) : segments[i].startTime = segments[i + 1].endTime
        /\ Len(segments) > 0 =>
              /\ segments[1].endTime = history[1].time
              /\ segments[Len(segments)].startTime = history[Len(history)].time
        /\ MostRecentFirst(history) =>
              \A i \in 1..Len(segments) :
                 DateValue(segments[i].startTime) < DateValue(segments[i].endTime)

\* C18 witness: a history of four points, most recent first, is on the map
\* with its three segments.
C18_Witness ==
    /\ trackMounted
    /\ Len(history) = 4
    /\ MostRecentFirst(history)
    /\ Len(segments) = 3

\* Seconds between history point i and the next older one.
GapSeconds(i) == ElapsedSeconds(DateValue(history[i].time), DateValue(history[i + 1].time))

\* C19 (gap threshold): the segment between two adjacent history points is
\* continuous ("normal") when they are at most GAP_THRESHOLD seconds apart,
\* the threshold itself included, and a gap when they are further apart.
C19_ThresholdInclusive ==
    trackMounted =>
        \A i \in 1..Len(segments) :
           segments[i].type = IF GapSeconds(i) <= GAP_THRESHOLD THEN "normal" ELSE "gap"

\* The step is a successful initial load of the current selection: setHistory
\* has replaced the history by the list returned.
HistoryReplaced ==
    /\ lastEvent'.op = "initialResponse"
    /\ lastEvent'.kind = "current"
    /\ lastEvent'.info[2]
    /\ history' # history

\* C20 (reveal policy): a step in which the selection effect runs or the
\* history is replaced wholesale leaves the visible track empty, with a
\* reveal over all segments started when there is a selection and a segment;
\* a tick of the reveal interval adds exactly one segment, the next one of the
\* list; a reveal over all segments shows the first segments of the list in
\* their order, and at its last tick the visible segments are the full list
\* and the interval is cleared.
C20_RevealPolicy ==
    [][ /\ (trackMounted /\ (lastEvent'.op = "selectionEffect" \/ HistoryReplaced)) =>
              /\ visibleSegments' = << >>
              /\ revealTimer' = IF selected' = NULL \/ segments' = << >> THEN None
                                ELSE Some([i |-> 0, count |-> Len(segments')])
        /\ (lastEvent'.op = "revealTick" /\ lastEvent'.kind = "current") =>
              LET t == revealTimer[1] IN
              /\ visibleSegments' = Append(visibleSegments, segments[t.i + 1])
              /\ t.count = Len(segments) =>
                    visibleSegments' = SubSeq(segments, 1, t.i + 1)
              /\ (t.count = Len(segments) /\ t.i + 1 = Len(segments)) =>
                    /\ visibleSegments' = segments
                    /\ revealTimer' = None ]_vars

\* The step prepends one live point for the unchanged selection: the track
\* has one segment more.
GrowsByOne ==
    /\ trackMounted
    /\ lastEvent'.op = "latestResponse"
    /\ selected' = selected
    /\ Len(segments') = Len(segments) + 1

\* C21 (growth by one live point): when the history grows by one live point
\* for the unchanged selection, the visible segments stay as they are and a
\* reveal of one segment is started, not one over the whole track; the tick
\* of that reveal adds to the visible track exactly the segment that ends at
\* the newest point and clears the interval.
C21_GrowthKeepsVisible ==
    [][ /\ GrowsByOne =>
              /\ visibleSegments' = visibleSegments
              /\ revealTimer' = Some([i |-> 0, count |-> 1])
              /\ segments'[1].endTime = history'[1].time
              /\ \A i \in 1..Len(segments) : segments'[i + 1] = segments[i]
        /\ (lastEvent'.op = "revealTick" /\ lastEvent'.kind = "current"
               /\ revealTimer = Some([i |-> 0, count |-> 1])) =>
              /\ visibleSegments' = Append(visibleSegments, segments[1])
              /\ revealTimer' = None ]_vars

\* C21 witness: a track of one segment was shown, a live point arrived, and
\* the tick has added the new segment (the one ending at the live point)
\* behind the segment already visible.
C21_Witness ==
    /\ lastEvent = Event("revealTick", "current", NoInfo)
    /\ Len(segments) >= 2
    /\ Len(visibleSegments) = Len(segments)
    /\ visibleSegments[Len(visibleSegments)] = segments[1]
    /\ segments[1].endTime[2] = "state"
    /\ \A i \in 2..Len(segments) : visibleSegments[i - 1] = segments[i]

\* The segment is made of two history points of callsign c: of its rows at
\* the two instants the segment names.
MadeOf(seg, c) ==
    /\ c # NULL
    /\ seg = Segment(MapState(c, seg.endTime[1], seg.endTime[2]),
                     MapState(c, seg.startTime[1], seg.startTime[2]))

C30_InitialLoadSucceeds ==
    [][ /\ (lastEvent'.op = "initialResponse" /\ lastEvent'.kind = "current"
               /\ lastEvent'.info[2]) =>
              /\ details'["state"].status = "success"
              /\ \A i \in 1..Len(history') : history'[i].callsign = selected
        /\ (details' = setDetailError("Could not get history data") /\ details' # details) =>
              (lastEvent'.op = "initialResponse" /\ ~lastEvent'.info[2]) ]_vars

\* The tasks that only a mounted fetcher runs.
FetcherTasks == {"refreshTick", "startFetch", "workerReply", "handleFetch"}

C26_BatchAndStampTogether ==
    [][ lastEvent'.op = "handleFetch" =>
           \A i \in 1..Len(lastEvent'.info) :
              \/ lastEvent'.info[i] = <<mapStates, lastMapUpdate>>
              \/ lastEvent'.info[i] = <<mapStates', lastMapUpdate'>> ]_vars

\* The segments of a list, whatever their order.
SegmentSet(segs) == { segs[i] : i \in 1..Len(segs) }

\* C27 (the reveal completes): outside the task of a click, whenever no
\* reveal interval is running the visible track consists of all the current
\* segments (without a running interval nothing is added any more, so a
\* track that is incomplete then stays so while the selection is unchanged).
C27_RevealCompletes ==
    (trackMounted /\ ~effectPending /\ revealTimer = None) =>
        SegmentSet(visibleSegments) = SegmentSet(segments)

\* C28: at most one frame callback of the marker layer is pending at any
\* time, whatever zoomend events, batch refreshes, selection changes and
\* frame ticks happen: the number of pending callbacks is one while the
\* loop runs and zero while it is idle; a zoomend that starts a loop that
\* is already running schedules nothing, and a step that stops a loop
\* that is idle cancels nothing.
C28_OneFramePending ==
    [][ /\ rafQueue' <= 1
        /\ rafQueue' = (IF frame' = NULL THEN 0 ELSE 1)
        /\ (lastEvent'.op = "zoomend" /\ layerMounted /\ frame # NULL
               /\ zoom' >= animationZoomLimit)
              => (rafQueue' = rafQueue /\ frame' = frame)
        /\ (lastEvent'.op \in {"zoomend", "click", "handleFetch"} /\ layerMounted /\ frame = NULL
               /\ zoom' < animationZoomLimit)
              => (rafQueue' = rafQueue /\ frame' = NULL) ]_vars

\* A zoomend from one animated level to another, with the loop running.
C28_Witness ==
    /\ layerMounted
    /\ lastEvent.op = "zoomend"
    /\ lastEvent.info = <<animationZoomLimit>>
    /\ zoom > animationZoomLimit
    /\ frame # NULL
    /\ rafQueue = 1

\* C23: the live segment is displayed only while a selection is active and
\* the zoom gate is open: after every step, when nothing is selected or the
\* zoom is below the animation limit (also right after a zoom out) no live
\* segment is displayed; a displayed one starts at the newest history point
\* and ends at the animated position; the steps that move the live segment
\* (frames, batches, zooms) leave the history as it is.
C23_LiveSegmentGated ==
    [][ /\ (trackMounted' /\ (selected' = NULL \/ zoom' < animationZoomLimit))
              => currentSegment' = None
        /\ currentSegment' # None
              => /\ history' # << >>
                 /\ currentSegment'[1].startPos = history'[1].position
                 /\ currentSegment'[1].endPos = animatedPosition'
                 /\ currentSegment'[1].type = "current"
        /\ lastEvent'.op \in {"frame", "handleFetch", "zoomend"} => history' = history ]_vars

\* The positions flight c can be reported at or extrapolated to: a
\* snapshot position of an area list, or its projection to an instant since.
AircraftPositions(c) ==
    UNION { UNION { { l[1].position }
                    \cup (IF Extrapolates(l[1])
                          THEN { project(l[1].position, l[1].heading[1],
                                         l[1].velocity[1] * ElapsedSeconds(t2, t)) : t2 \in t..now }
                          ELSE {}) :
                    l \in { m \in LiveLists(t) : m[1].callsign = c } } :
            t \in 0..now }

\* C29: whenever a live segment is displayed its end point is a position of
\* the selected aircraft, a snapshot position or an extrapolated one, and so
\* never the placeholder <<0, 0>> that resetSelected stores.
C29_LiveEndIsAircraftPosition ==
    (trackMounted /\ currentSegment # None) =>
        /\ currentSegment[1].endPos # <<0, 0>>
        /\ currentSegment[1].endPos \in AircraftPositions(selected)

=========================================================================
